---- MODULE Spec2Model ----
(***************************************************************************)
(* Model of gen_matrices.py: extraction of the pca_weight literal from C   *)
(* source text, generation of the inverse DCT matrix, and the two raw      *)
(* float32 files written by main().                                        *)
(*                                                                         *)
(* Text is a sequence of one-character strings.  The identifier            *)
(* "pca_weight" is the single symbol "P"; every other character of the     *)
(* regular expressions is modelled literally.  Positions (start, pos) are  *)
(* Python's 0-based indices, so Python's text[pos] is text[pos + 1] here.  *)
(*                                                                         *)
(* A Python float is a record [m, e] standing for m * 2^e, kept in lowest  *)
(* terms (m odd, or m = 0 and e = 0).                                      *)
(***************************************************************************)
EXTENDS Integers, Sequences, FiniteSets

\* ------------------------------------------------------------------ bounds
MaxRows == 2
MaxCols == 2
MaxPieces == 2
\* fraction bits of the fixed-point arithmetic standing for float arithmetic
FracBits == 10

\* ------------------------------------------------------------- characters
Digits == <<"0", "1", "2", "3", "4", "5", "6", "7", "8", "9">>

IsDigit(ch) == \E d \in 1..10 : Digits[d] = ch

DigitVal(ch) == (CHOOSE d \in 1..10 : Digits[d] = ch) - 1

\* str.strip() and \s: the whitespace of the alphabet
IsSpace(ch) == ch \in {" ", "\n"}

Min(S) == CHOOSE x \in S : \A y \in S : x <= y

Max(S) == CHOOSE x \in S : \A y \in S : x >= y

Abs(x) == IF x < 0 THEN -x ELSE x

\* Python's t[a:b] for 0 <= a and 0 <= b
PySlice(t, a, b) == SubSeq(t, a + 1, b)

\* ------------------------------------------------------------------ floats
RECURSIVE Num(_, _)
Num(m, e) ==
    IF m = 0 THEN [m |-> 0, e |-> 0]
    ELSE IF m % 2 = 0 THEN Num(m \div 2, e + 1)
    ELSE [m |-> m, e |-> e]

\* ------------------------------------------------- re.search, lines 25-27
\* index of the first non-space character at or after from, 0 if none
FirstNonSpace(t, from) ==
    LET S == {q \in from..Len(t) : ~IsSpace(t[q])}
    IN  IF S = {} THEN 0 ELSE Min(S)

\* "." does not match a newline
NoNewline(t, a, b) == \A q \in a..b : t[q] # "\n"

\* \s*=\s*\{ after the "]" at index k: the index of the "{", 0 if no match
TailEnd(t, k) ==
    LET a == FirstNonSpace(t, k + 1)
    IN  IF a = 0 \/ t[a] # "=" THEN 0
        ELSE LET b == FirstNonSpace(t, a + 1)
             IN  IF b = 0 \/ t[b] # "{" THEN 0 ELSE b

\* the pairs (j, k) of closing brackets of a match starting at index i
Brackets(t, i) ==
    IF i + 1 > Len(t) \/ t[i] # "P" \/ t[i + 1] # "[" THEN {}
    ELSE {jk \in (i + 2..Len(t)) \X (i + 2..Len(t)) :
            /\ jk[1] + 1 <= Len(t)
            /\ t[jk[1]] = "]" /\ t[jk[1] + 1] = "["
            /\ NoNewline(t, i + 2, jk[1] - 1)
            /\ jk[2] > jk[1] + 1
            /\ t[jk[2]] = "]"
            /\ NoNewline(t, jk[1] + 2, jk[2] - 1)
            /\ TailEnd(t, jk[2]) # 0}

\* match.end() of the match starting at index i: both .*? are lazy, so the
\* first bracket pair in lexicographic order is the one the matcher takes
MatchEndAt(t, i) ==
    LET B == Brackets(t, i)
        j == Min({jk[1] : jk \in B})
        k == Min({jk[2] : jk \in {x \in B : x[1] = j}})
    IN  TailEnd(t, k)

\* re.search: match.end() of the leftmost match, -1 when there is none
re_search(t) ==
    LET S == {i \in 1..Len(t) : Brackets(t, i) # {}}
    IN  IF S = {} THEN -1 ELSE MatchEndAt(t, Min(S))

\* ------------------------------------------------ re.findall, line 42
FirstAt(t, from, ch) ==
    LET S == {q \in from..Len(t) : t[q] = ch}
    IN  IF S = {} THEN 0 ELSE Min(S)

\* re.findall(r'\{([^}]+)\}', t), scanning from index from
RECURSIVE re_findall(_, _)
re_findall(t, from) ==
    LET p == FirstAt(t, from, "{")
        q == IF p = 0 THEN 0 ELSE FirstAt(t, p + 1, "}")
    IN  IF p = 0 \/ q = 0 THEN <<>>
        ELSE IF q = p + 1 THEN re_findall(t, p + 1)
        ELSE <<SubSeq(t, p + 1, q - 1)>> \o re_findall(t, q + 1)

\* ------------------------------------------------ row parsing, line 48
\* str.split(','): the pieces between the commas, empty pieces included
RECURSIVE split(_)
split(s) ==
    LET q == FirstAt(s, 1, ",")
    IN  IF q = 0 THEN <<s>>
        ELSE <<SubSeq(s, 1, q - 1)>> \o split(SubSeq(s, q + 1, Len(s)))

\* str.strip()
strip(s) ==
    LET S == {q \in 1..Len(s) : ~IsSpace(s[q])}
    IN  IF S = {} THEN <<>> ELSE SubSeq(s, Min(S), Max(S))

RECURSIVE DecimalValue(_)
DecimalValue(ds) ==
    IF ds = <<>> THEN 0
    ELSE 10 * DecimalValue(SubSeq(ds, 1, Len(ds) - 1)) + DigitVal(ds[Len(ds)])

\* float(s) on the alphabet of the model: optional sign, then digits;
\* ok = FALSE stands for ValueError
float(s) ==
    LET u == strip(s)
        signed == u # <<>> /\ u[1] \in {"-", "+"}
        ds == IF signed THEN Tail(u) ELSE u
    IN  IF ds = <<>> \/ \E q \in 1..Len(ds) : ~IsDigit(ds[q])
        THEN [ok |-> FALSE, val |-> Num(0, 0)]
        ELSE [ok |-> TRUE,
              val |-> Num(IF signed /\ u[1] = "-" THEN -DecimalValue(ds)
                          ELSE DecimalValue(ds), 0)]

\* Tokens that also drops what float() would reject
Tokens_parseable(row) == SelectSeq(split(row), LAMBDA x : float(x).ok)

\* the tokens line 48 converts: x for x in row.split(',') if x.strip()
Tokens(row) == SelectSeq(split(row), LAMBDA x : strip(x) # <<>>)

\* ------------------------------------------- struct.pack('<f'), line 140
RECURSIVE Pow2(_)
Pow2(n) == IF n <= 0 THEN 1 ELSE 2 * Pow2(n - 1)

\* floor(log2(a)) for a >= 1
RECURSIVE Log2(_)
Log2(a) == IF a < 2 THEN 0 ELSE 1 + Log2(a \div 2)

\* the 24-bit significand and the exponent of x rounded to single precision
\* (round to nearest, ties to even)
Single(x) ==
    LET a == Abs(x.m)
        p == Log2(a)
        q == Pow2(p - 23)
        lo == a \div q
        rem == a % q
        up == 2 * rem > q \/ (2 * rem = q /\ lo % 2 = 1)
        sig == IF p <= 23 THEN a * Pow2(23 - p)
               ELSE IF up THEN lo + 1 ELSE lo
    IN  IF sig = Pow2(24) THEN [sig |-> Pow2(23), exp |-> p + x.e + 1]
        ELSE [sig |-> sig, exp |-> p + x.e]

\* pack with the most significant byte first, as '>f' would write it
pack_big_endian(x) ==
    IF x.m = 0 THEN <<0, 0, 0, 0>>
    ELSE LET s == Single(x)
             sign == IF x.m < 0 THEN 1 ELSE 0
             bexp == s.exp + 127
             frac == s.sig - Pow2(23)
         IN  <<sign * 128 + bexp \div 2,
               (bexp % 2) * 128 + frac \div 65536,
               (frac \div 256) % 256,
               frac % 256>>

\* struct.pack('<f', x): sign bit, 8 exponent bits biased by 127, 23 fraction
\* bits, least significant byte first
pack(x) ==
    IF x.m = 0 THEN <<0, 0, 0, 0>>
    ELSE LET s == Single(x)
             sign == IF x.m < 0 THEN 1 ELSE 0
             bexp == s.exp + 127
             frac == s.sig - Pow2(23)
         IN  <<frac % 256,
               (frac \div 256) % 256,
               (bexp % 2) * 128 + frac \div 65536,
               sign * 128 + bexp \div 2>>

\* struct.unpack('<f', b): the float four bytes stand for
unpack(b) ==
    LET sign == b[4] \div 128
        bexp == (b[4] % 128) * 2 + b[3] \div 128
        frac == (b[3] % 128) * 65536 + b[2] * 256 + b[1]
    IN  IF bexp = 0 /\ frac = 0 THEN Num(0, 0)
        ELSE Num((IF sign = 1 THEN -1 ELSE 1) * (Pow2(23) + frac), bexp - 150)

\* -------------------------------------- generate_idct_matrix, lines 74-133
SCALE == Pow2(FracBits)

mul_fx(a, b) == (a * b + SCALE \div 2) \div SCALE

div_fx(a, b) == (a * SCALE) \div b

\* the integer square root of v, known to lie in lo..hi
RECURSIVE isqrt(_, _, _)
isqrt(v, lo, hi) ==
    IF lo >= hi THEN lo
    ELSE LET mid == (lo + hi + 1) \div 2
         IN  IF mid * mid > v THEN isqrt(v, lo, mid - 1) ELSE isqrt(v, mid, hi)

\* math.sqrt, for 0 <= a <= 16
sqrt_fx(a) == isqrt(a * SCALE, 0, 4 * SCALE)

\* math.pi
PI_fx == (355 * SCALE) \div 113

\* the Taylor series of the cosine on [0, pi/2]
RECURSIVE CosSeries(_, _, _)
CosSeries(x, term, i) ==
    IF i > 6 THEN 0
    ELSE term + CosSeries(x, -mul_fx(mul_fx(term, x), x) \div ((2*i + 1) * (2*i + 2)),
                          i + 1)

\* math.cos(math.pi * m / (2*N)): the angle is reduced to the first quadrant
cos_fx(m, N) ==
    LET r == m % (4 * N)
        j == IF r <= N THEN r
             ELSE IF r <= 2 * N THEN 2 * N - r
             ELSE IF r <= 3 * N THEN r - 2 * N
             ELSE 4 * N - r
        sgn == IF r <= N \/ r > 3 * N THEN 1 ELSE -1
    IN  sgn * CosSeries((PI_fx * j) \div (2 * N), SCALE, 0)

RECURSIVE SumSeq(_)
SumSeq(s) == IF s = <<>> THEN 0 ELSE Head(s) + SumSeq(Tail(s))

\* generate_idct_matrix whose spot check sets x_test[2] instead of x_test[1]
generate_idct_matrix_coord2(N) ==
    IF N - 1 = 0 THEN [raised |-> "ZeroDivisionError", IDCT |-> <<>>]
    ELSE IF N < 3 THEN [raised |-> "IndexError", IDCT |-> <<>>]
    ELSE [raised |-> "none",
          IDCT |-> [n \in 1..N |-> [k \in 1..N |-> Num(0, 0)]]]

\* lines 74-133; F, norms_sq and IDCT are indexed from 1 where Python indexes
\* from 0.  raised names the exception that ends the call, "none" on return.
generate_idct_matrix(N) ==
    IF N - 1 = 0 THEN [raised |-> "ZeroDivisionError", IDCT |-> <<>>]
    ELSE
    LET ortho_x == sqrt_fx(2 * SCALE)
        ortho_y == sqrt_fx(div_fx(2 * SCALE, (N - 1) * SCALE)) \div 2
        F == [k \in 1..N |-> [n \in 1..N |->
                LET c == cos_fx((k - 1) * (2 * (n - 1) + 1), N)
                IN  IF k - 1 = 0 THEN mul_fx(ortho_y, c)
                    ELSE mul_fx(mul_fx(ortho_x, ortho_y), c)]]
        norms_sq == [k \in 1..N |-> SumSeq([n \in 1..N |-> mul_fx(F[k][n], F[k][n])])]
    IN  IF \E k \in 1..N : norms_sq[k] = 0
        THEN [raised |-> "ZeroDivisionError", IDCT |-> <<>>]
        ELSE IF N < 2 THEN [raised |-> "IndexError", IDCT |-> <<>>]
        ELSE [raised |-> "none",
              IDCT |-> [n \in 1..N |-> [k \in 1..N |->
                          Num(div_fx(F[k][n], norms_sq[k]), -FracBits)]]]

\* ------------------------------------------------------ lines 47-51
\* parse_row without the length check of line 49
parse_row_unchecked(row, cols) ==
    LET toks == Tokens(row)
        vals == [q \in 1..Len(toks) |-> float(toks[q])]
    IN  IF \E q \in 1..Len(vals) : ~vals[q].ok
        THEN [error |-> "malformed-numeric-literal", values |-> <<>>]
        ELSE [error |-> "none", values |-> [q \in 1..Len(vals) |-> vals[q].val]]

\* parse_row with the values of a row collected back to front
parse_row_reversed(row, cols) ==
    LET toks == Tokens(row)
        vals == [q \in 1..Len(toks) |-> float(toks[Len(toks) + 1 - q])]
    IN  IF \E q \in 1..Len(vals) : ~vals[q].ok
        THEN [error |-> "malformed-numeric-literal", values |-> <<>>]
        ELSE IF Len(vals) # cols
        THEN [error |-> "column-count-mismatch", values |-> <<>>]
        ELSE [error |-> "none", values |-> [q \in 1..Len(vals) |-> vals[q].val]]

\* one iteration of the row loop: the values of the row, or the error raised
parse_row(row, cols) ==
    LET toks == Tokens(row)
        vals == [q \in 1..Len(toks) |-> float(toks[q])]
    IN  IF \E q \in 1..Len(vals) : ~vals[q].ok
        THEN [error |-> "malformed-numeric-literal", values |-> <<>>]
        ELSE IF Len(vals) # cols
        THEN [error |-> "column-count-mismatch", values |-> <<>>]
        ELSE [error |-> "none", values |-> [q \in 1..Len(vals) |-> vals[q].val]]

\* ------------------------------------------------------- input texts
RECURSIVE Cat(_)
Cat(ss) == IF ss = <<>> THEN <<>> ELSE Head(ss) \o Cat(Tail(ss))

\* the declaration up to its opening brace: pca_weight[][] = {
Header == <<"P", "[", "]", "[", "]", " ", "=", " ", "{">>

\* str(n) for an integer n
RECURSIVE DecimalDigits(_)
DecimalDigits(n) ==
    IF n < 10 THEN <<Digits[n + 1]>>
    ELSE DecimalDigits(n \div 10) \o <<Digits[(n % 10) + 1]>>

Numeral(n) == IF n < 0 THEN <<"-">> \o DecimalDigits(-n) ELSE DecimalDigits(n)

\* the entries of the generated literals: distinct in every cell
Seeds == {-3, 1, 16777217}

Entry(seed, i, j) == seed + 10 * (i - 1) + (j - 1)

LiteralMatrix(seed, R, C) == [i \in 1..R |-> [j \in 1..C |-> Entry(seed, i, j)]]

\* the initializer of an integer matrix M, without the outer braces
RenderRow(row, sep) ==
    <<"{">> \o Cat([j \in 1..Len(row) |->
                     (IF j = 1 THEN <<>> ELSE sep) \o Numeral(row[j])]) \o <<"}">>

RenderBody(M, sep, rowsep) ==
    Cat([i \in 1..Len(M) |-> (IF i = 1 THEN <<>> ELSE rowsep) \o RenderRow(M[i], sep)])

Styles == {"tight", "spaced", "prefixed", "suffixed"}

Render(M, style) ==
    LET body == IF style = "spaced"
                THEN <<"\n", " ">> \o RenderBody(M, <<",", " ">>, <<",", "\n", " ">>) \o <<"\n">>
                ELSE RenderBody(M, <<",">>, <<",">>)
        pre == IF style = "prefixed" THEN <<"{", "9", "}", " ">> ELSE <<>>
        suf == IF style = "suffixed" THEN <<" ", "{", "9", "}">> ELSE <<>>
    IN  pre \o Header \o body \o <<"}">> \o suf

\* every generated well-formed literal with its matrix
Literals(R, C) ==
    {[text |-> Render(LiteralMatrix(seed, R, C), style), M |-> LiteralMatrix(seed, R, C)] :
        seed \in Seeds, style \in Styles}

\* the same for every shape within the bounds
LiteralTable ==
    UNION {{[R |-> R, C |-> C, text |-> l.text, M |-> l.M] : l \in Literals(R, C)} :
              R \in 1..MaxRows, C \in 1..MaxCols}

WellFormedTexts == {l.text : l \in LiteralTable}

\* groups of damaged initializers
Vocab == << <<"{", "1", ",", "2", "}">>,
            <<"{", "7", "}">>,
            <<"{", "}">>,
            <<"{", "1", ",", ",", "2", "}">>,
            <<"{", "1", ",", "2", ",", "}">>,
            <<"{", "x", ",", "1", "}">>,
            <<"{", " ", "}">>,
            <<"{">> >>

\* up to MaxPieces of them, separated by commas, with or without the closing
\* brace of the initializer
DamagedTexts ==
    {Header \o Cat([q \in 1..Len(s) |-> (IF q = 1 THEN <<>> ELSE <<",">>) \o Vocab[s[q]]])
            \o closing :
        s \in UNION {[1..n -> 1..Len(Vocab)] : n \in 0..MaxPieces},
        closing \in {<<>>, <<"}">>}}

\* declarations the pattern does or does not match, before one fixed body
Declarations == { <<>>,
                  <<"P", "[", "]", "=", "{">>,
                  <<"P", "[", "]", "[", "]", "{">>,
                  <<"P", "[", "\n", "]", "[", "]", "=", "{">>,
                  <<"P", "[", "]", "[", "]", "\n", "=", "\n", "{">>,
                  <<"P", "[", "]", " ", "P", "[", "4", "]", "[", "2", "]", "=", "{">>,
                  <<"P", "[", "]", "[", "]", "]", "=", "{">> }

DeclaredTexts == {d \o <<"{", "7", "}", "}">> : d \in Declarations}

Texts == WellFormedTexts \cup DamagedTexts \cup DeclaredTexts

\* ------------------------------------------------------------ state
VARIABLES PCA_SIZE, DCT_SIZE, text, pc, error, start, depth, pos, array_text,
          rows, matrix, idct, warned, files, r, c

vars == <<PCA_SIZE, DCT_SIZE, text, pc, error, start, depth, pos, array_text,
          rows, matrix, idct, warned, files, r, c>>

config == <<PCA_SIZE, DCT_SIZE, text>>

scan == <<start, depth, pos, array_text>>

NoFile == [exists |-> FALSE, data |-> <<>>]

\* what an earlier run may have left in the assets directory: here it left
\* ipca_weight.bin and no idct_weight.bin
StaleFile == [exists |-> TRUE, data |-> <<1, 2, 3, 4, 5>>]

Init ==
    /\ PCA_SIZE \in 1..MaxRows
    /\ DCT_SIZE \in 1..MaxCols
    /\ text \in Texts
    /\ pc = "open_source"
    /\ error = "none"
    /\ start = 0 /\ depth = 0 /\ pos = 0 /\ array_text = <<>>
    /\ rows = <<>> /\ matrix = <<>> /\ idct = <<>> /\ warned = FALSE
    /\ files = [A |-> StaleFile, B |-> NoFile]
    /\ r = 0 /\ c = 0

\* an exception propagates out of main: the run stops where it was raised
Raise(kind) == error' = kind /\ pc' = pc

\* main with the two saves in the other order
main_next_swapped(p) ==
    CASE p = "extract" -> "generate"
      [] p = "generate" -> "openB"
      [] p = "saveB" -> "openA"
      [] p = "saveA" -> "done"

\* the statement of main that follows statement p, lines 149-162
main_next(p) ==
    CASE p = "extract" -> "generate"
      [] p = "generate" -> "openA"
      [] p = "saveA" -> "openB"
      [] p = "saveB" -> "done"

\* lines 21-22
OpenSource ==
    /\ pc = "open_source" /\ error = "none"
    /\ \/ pc' = "search" /\ error' = error
       \/ Raise("io-failure")
    /\ UNCHANGED <<config, scan, rows, matrix, idct, warned, files, r, c>>

\* lines 25-32
Search ==
    /\ pc = "search" /\ error = "none"
    /\ LET e == re_search(text)
       IN  IF e = -1
           THEN Raise("pattern-not-found") /\ UNCHANGED <<start, depth, pos>>
           ELSE /\ start' = e /\ depth' = 1 /\ pos' = e
                /\ pc' = "scan" /\ error' = error
    /\ UNCHANGED <<config, array_text, rows, matrix, idct, warned, files, r, c>>

\* lines 33-38: one iteration of the while loop
ScanStep ==
    /\ pc = "scan" /\ error = "none"
    /\ depth > 0 /\ pos < Len(text)
    /\ depth' = IF text[pos + 1] = "{" THEN depth + 1
                ELSE IF text[pos + 1] = "}" THEN depth - 1
                ELSE depth
    /\ pos' = pos + 1
    /\ UNCHANGED <<config, pc, error, start, array_text, rows, matrix, idct,
                   warned, files, r, c>>

\* lines 33 and 39: the loop ends
ScanExit ==
    /\ pc = "scan" /\ error = "none"
    /\ ~(depth > 0 /\ pos < Len(text))
    /\ array_text' = PySlice(text, start, pos - 1)
    /\ pc' = "findall"
    /\ UNCHANGED <<config, error, start, depth, pos, rows, matrix, idct,
                   warned, files, r, c>>

\* lines 42-46
FindRows ==
    /\ pc = "findall" /\ error = "none"
    /\ rows' = re_findall(array_text, 1)
    /\ IF Len(rows') # PCA_SIZE
       THEN Raise("row-count-mismatch")
       ELSE pc' = "row_loop" /\ error' = error
    /\ UNCHANGED <<config, scan, matrix, idct, warned, files, r, c>>

\* lines 47-53: one iteration of the row loop; after the last row the matrix
\* is returned to main, lines 149-152
ParseRow ==
    /\ pc = "row_loop" /\ error = "none"
    /\ Len(matrix) < Len(rows)
    /\ LET res == parse_row(rows[Len(matrix) + 1], DCT_SIZE)
       IN  IF res.error # "none"
           THEN Raise(res.error) /\ UNCHANGED matrix
           ELSE /\ matrix' = Append(matrix, res.values)
                /\ pc' = IF Len(matrix') = Len(rows) THEN main_next("extract")
                         ELSE pc
                /\ error' = error
    /\ UNCHANGED <<config, scan, rows, idct, warned, files, r, c>>

\* Generate with the tolerance check as a gate: a warning raises
Generate_gated ==
    /\ pc = "generate" /\ error = "none"
    /\ LET g == generate_idct_matrix(DCT_SIZE)
       IN  IF g.raised # "none"
           THEN Raise(g.raised) /\ UNCHANGED <<idct, warned>>
           ELSE \/ /\ idct' = g.IDCT /\ warned' = FALSE
                   /\ pc' = main_next("generate") /\ error' = error
                \/ /\ warned' = TRUE /\ UNCHANGED idct
                   /\ Raise("ValueError")
    /\ UNCHANGED <<config, scan, rows, matrix, files, r, c>>

\* line 155.  Whether err > 1e-6 holds depends on float rounding below the
\* resolution of the fixed-point arithmetic, so both outcomes are admitted.
Generate ==
    /\ pc = "generate" /\ error = "none"
    /\ LET g == generate_idct_matrix(DCT_SIZE)
       IN  IF g.raised # "none"
           THEN Raise(g.raised) /\ UNCHANGED <<idct, warned>>
           ELSE /\ idct' = g.IDCT
                /\ warned' \in BOOLEAN
                /\ pc' = main_next("generate") /\ error' = error
    /\ UNCHANGED <<config, scan, rows, matrix, files, r, c>>

\* the arguments of the two calls of save_matrix_binary, lines 159-160
SaveArgs(f) ==
    IF f = "A" THEN [matrix |-> matrix, rows |-> PCA_SIZE, cols |-> DCT_SIZE]
    ELSE [matrix |-> idct, rows |-> DCT_SIZE, cols |-> DCT_SIZE]

\* line 137: open(path, 'wb') creates or truncates the file
OpenFile(f) ==
    /\ pc = "open" \o f /\ error = "none"
    /\ \/ /\ files' = [files EXCEPT ![f] = [exists |-> TRUE, data |-> <<>>]]
          /\ pc' = "write" \o f /\ error' = error
       \/ Raise("io-failure") /\ UNCHANGED files
    /\ r' = 0 /\ c' = 0
    /\ UNCHANGED <<config, scan, rows, matrix, idct, warned>>

\* WriteValue that removes the file when a write fails
WriteValue_cleanup(f) ==
    /\ pc = "write" \o f /\ error = "none"
    /\ LET a == SaveArgs(f)
       IN  \/ /\ files' = [files EXCEPT ![f].data = @ \o pack(a.matrix[r + 1][c + 1])]
              /\ c' = IF c + 1 = a.cols THEN 0 ELSE c + 1
              /\ r' = IF c + 1 = a.cols THEN r + 1 ELSE r
              /\ pc' = IF r' = a.rows THEN main_next("save" \o f) ELSE pc
              /\ error' = error
           \/ /\ Raise("io-failure")
              /\ files' = [files EXCEPT ![f] = NoFile]
              /\ UNCHANGED <<r, c>>
    /\ UNCHANGED <<config, scan, rows, matrix, idct, warned>>

\* lines 138-141: one f.write; after the last one the file is closed and
\* main goes on
WriteValue(f) ==
    /\ pc = "write" \o f /\ error = "none"
    /\ LET a == SaveArgs(f)
       IN  \/ /\ files' = [files EXCEPT ![f].data = @ \o pack(a.matrix[r + 1][c + 1])]
              /\ c' = IF c + 1 = a.cols THEN 0 ELSE c + 1
              /\ r' = IF c + 1 = a.cols THEN r + 1 ELSE r
              /\ pc' = IF r' = a.rows THEN main_next("save" \o f) ELSE pc
              /\ error' = error
           \/ Raise("io-failure") /\ UNCHANGED <<files, r, c>>
    /\ UNCHANGED <<config, scan, rows, matrix, idct, warned>>

Next ==
    \/ OpenSource
    \/ Search
    \/ ScanStep
    \/ ScanExit
    \/ FindRows
    \/ ParseRow
    \/ Generate
    \/ \E f \in {"A", "B"} : OpenFile(f)
    \/ \E f \in {"A", "B"} : WriteValue(f)

Spec == Init /\ [][Next]_vars

\* ============================================================ properties
ExtractStages == {"open_source", "search", "scan", "findall", "row_loop"}

\* extract_pca_matrix has returned its matrix to main
Extracted == pc \notin ExtractStages

NumMatrix(M) == [i \in 1..Len(M) |-> [j \in 1..Len(M[i]) |-> Num(M[i][j], 0)]]

\* C1: a well-formed literal of PCA_SIZE groups of DCT_SIZE numerals is never
\* rejected, extraction keeps running until it returns, and the matrix it
\* returns holds the numerals' values in textual order
C1_WellFormedLiteralIsExtracted ==
    \A l \in LiteralTable :
        l.R = PCA_SIZE /\ l.C = DCT_SIZE /\ text = l.text =>
            /\ pc \in ExtractStages /\ error # "none" =>
                   pc = "open_source" /\ error = "io-failure"
            /\ pc = "row_loop" /\ error = "none" => Len(matrix) < Len(rows)
            /\ Extracted => matrix = NumMatrix(l.M)

C1_Witness ==
    /\ pc = "generate" /\ PCA_SIZE = 2 /\ DCT_SIZE = 2
    /\ text = Render(LiteralMatrix(-3, 2, 2), "spaced")
    /\ matrix = NumMatrix(<<<<-3, -2>>, <<7, 8>>>>)
\* ---- brace groups and tokens of an initializer body, read off the text
\* the closing braces of b
Closers(b) == {q \in 1..Len(b) : b[q] = "}"}

\* where the stretch of b that the closing brace at q ends begins
SegmentStart(b, q) ==
    LET before == {x \in Closers(b) : x < q}
    IN  IF before = {} THEN 1 ELSE Max(before) + 1

\* the first opening brace of that stretch, 0 if it has none
Opener(b, q) ==
    LET S == {x \in SegmentStart(b, q)..(q - 1) : b[x] = "{"}
    IN  IF S = {} THEN 0 ELSE Min(S)

\* the closing braces that end a brace group, and those of non-empty groups
AllGroups(b) == {q \in Closers(b) : Opener(b, q) # 0}

NonEmptyGroups(b) == {q \in AllGroups(b) : Opener(b, q) < q - 1}

GroupText(b, q) == SubSeq(b, Opener(b, q) + 1, q - 1)

\* the closing brace of the n-th non-empty group
NthGroup(b, n) ==
    CHOOSE q \in NonEmptyGroups(b) : Cardinality({x \in NonEmptyGroups(b) : x <= q}) = n

CommaCount(g) == Cardinality({x \in 1..Len(g) : g[x] = ","})

\* the comma-separated tokens of a group: none in {}, else one more than commas
CommaTokenCount(g) == IF g = <<>> THEN 0 ELSE CommaCount(g) + 1

\* the tokens that hold something besides whitespace, counted by their first
\* such character
NonBlankTokenCount(g) ==
    Cardinality({x \in 1..Len(g) :
        /\ g[x] # "," /\ ~IsSpace(g[x])
        /\ \A y \in 1..(x - 1) :
               (\A z \in y..(x - 1) : g[z] # ",") => IsSpace(g[y])})

\* C2 (as amended): extraction fails with row-count-mismatch exactly when the
\* number of non-empty brace groups of the isolated body differs from
\* PCA_SIZE; with the right number of groups it fails with
\* column-count-mismatch only at a group whose number of non-blank tokens
\* differs from DCT_SIZE, and it returns a matrix only if every non-empty
\* group has exactly DCT_SIZE non-blank tokens
C2_ShapeMismatchFails ==
    LET n == Cardinality(NonEmptyGroups(array_text))
    IN  /\ pc = "findall" /\ error # "none" =>
               error = "row-count-mismatch" /\ n # PCA_SIZE
        /\ pc = "row_loop" \/ Extracted => n = PCA_SIZE
        /\ pc = "row_loop" /\ error = "column-count-mismatch" =>
               NonBlankTokenCount(GroupText(array_text, NthGroup(array_text, Len(matrix) + 1)))
                   # DCT_SIZE
        /\ pc = "row_loop" \/ Extracted =>
               \A i \in 1..Len(matrix) :
                   NonBlankTokenCount(GroupText(array_text, NthGroup(array_text, i)))
                       = DCT_SIZE
        /\ Extracted => Len(matrix) = PCA_SIZE

\* a literal of two groups is refused at its second group, which is short
C2_Witness ==
    /\ pc = "row_loop" /\ error = "column-count-mismatch"
    /\ PCA_SIZE = 2 /\ DCT_SIZE = 2 /\ Len(matrix) = 1
    /\ Cardinality(AllGroups(array_text)) = 2
    /\ NonBlankTokenCount(GroupText(array_text, NthGroup(array_text, 2))) = 1

\* C2 (as stated): a matrix is returned only if the body has exactly PCA_SIZE
\* brace groups, empty ones included, each of exactly DCT_SIZE
\* comma-separated tokens, empty ones included
C2_Original ==
    Extracted =>
        /\ Cardinality(AllGroups(array_text)) = PCA_SIZE
        /\ \A q \in AllGroups(array_text) :
               CommaTokenCount(GroupText(array_text, q)) = DCT_SIZE

\* ---- C8
\* the comma-separated pieces of group text g that are not blank and that
\* float() rejects
BadTokens(g) ==
    {x \in 1..Len(split(g)) : strip(split(g)[x]) # <<>> /\ ~float(split(g)[x]).ok}

BlankTokens(g) == {x \in 1..Len(split(g)) : strip(split(g)[x]) = <<>>}

\* C8 (as amended): blank tokens are skipped; every other token that float()
\* rejects stops the extraction: with the expected number of groups no matrix
\* is returned while any group holds such a token, a row is appended only if
\* it holds none, and the row at which the run stops with
\* malformed-numeric-literal holds one
C8_UnparseableTokenFails ==
    /\ pc = "row_loop" \/ Extracted =>
           \A i \in 1..Len(matrix) :
               BadTokens(GroupText(array_text, NthGroup(array_text, i))) = {}
    /\ pc = "row_loop" /\ error # "none" =>
           LET g == GroupText(array_text, NthGroup(array_text, Len(matrix) + 1))
           IN  (error = "malformed-numeric-literal") = (BadTokens(g) # {})
    /\ Extracted => Len(matrix) = Cardinality(NonEmptyGroups(array_text))

C8_Witness ==
    /\ pc = "row_loop" /\ error = "malformed-numeric-literal"
    /\ Len(matrix) = 1
    /\ BadTokens(GroupText(array_text, NthGroup(array_text, 2))) # {}

\* C8 (as stated): no token that float() rejects, a blank one included, is in
\* a group of a literal for which a matrix was returned
C8_Original ==
    Extracted =>
        \A q \in NonEmptyGroups(array_text) :
            BadTokens(GroupText(array_text, q)) \cup BlankTokens(GroupText(array_text, q)) = {}

\* ---- C7
\* the nesting depth after the character at index q, 1 just after the
\* opening brace that ends at index s
DepthAfter(t, s, q) ==
    1 + Cardinality({x \in (s + 1)..q : t[x] = "{"})
      - Cardinality({x \in (s + 1)..q : t[x] = "}"})

\* the body of the initializer whose opening brace is at index s: up to the
\* matching closing brace, or the rest of the text when there is none
InitializerBody(t, s) ==
    LET S == {q \in (s + 1)..Len(t) : DepthAfter(t, s, q) = 0}
    IN  IF S = {} THEN SubSeq(t, s + 1, Len(t)) ELSE SubSeq(t, s + 1, Min(S) - 1)

\* C7: the scan never runs past the text, and the body it isolates is the
\* text between the opening brace and its matching closing brace, all of it
\* also when the text ends first
C7_BodyIsolated ==
    /\ pc = "scan" => pos <= Len(text) /\ depth >= 0
    /\ pc \in {"findall", "row_loop"} => array_text = InitializerBody(text, start)
\* ---- C3, C10
\* the call save_matrix_binary(.., f, ..) has returned
Saved(f) == IF f = "A" THEN pc \in {"openB", "writeB", "done"} ELSE pc = "done"

\* the float held by the four bytes at 0-based value index idx of data
ValueAt(data, idx) == unpack(SubSeq(data, 4 * idx + 1, 4 * idx + 4))

\* x has a 24-bit significand, so single precision holds it exactly
Representable(x) == Abs(x.m) < Pow2(24)

\* v is x rounded to single precision: within half a unit in the 24th
\* significant bit of x, and x itself when x is representable
RoundedTo(x, v) ==
    IF Representable(x) THEN v = x
    ELSE /\ Representable(v)
         /\ v.e >= x.e
         /\ 2 * Abs(v.m * Pow2(v.e - x.e) - x.m) <= Pow2(Log2(Abs(x.m)) - 23)

\* C3 (as amended): a completed save leaves exactly rows*cols*4 bytes, and the
\* four bytes at value index r*cols + c decode to matrix[r][c] rounded to
\* single precision, which is matrix[r][c] itself when single precision can
\* represent it
C3_RowMajorSingles ==
    \A f \in {"A", "B"} :
        Saved(f) =>
            LET a == SaveArgs(f)
            IN  /\ Len(files[f].data) = a.rows * a.cols * 4
                /\ \A i \in 0..(a.rows - 1), j \in 0..(a.cols - 1) :
                       RoundedTo(a.matrix[i + 1][j + 1],
                                 ValueAt(files[f].data, i * a.cols + j))

\* both files are complete and the first holds an entry that single precision
\* cannot represent
C3_Witness ==
    /\ pc = "done" /\ PCA_SIZE = 2 /\ DCT_SIZE = 2
    /\ ~Representable(matrix[1][1])
    /\ Representable(matrix[1][2])
    /\ Len(files["A"].data) = 16

\* C3 (as stated): decoding the output reproduces the input matrix
C3_Original ==
    \A f \in {"A", "B"} :
        Saved(f) =>
            LET a == SaveArgs(f)
            IN  /\ Len(files[f].data) = a.rows * a.cols * 4
                /\ \A i \in 0..(a.rows - 1), j \in 0..(a.cols - 1) :
                       ValueAt(files[f].data, i * a.cols + j) = a.matrix[i + 1][j + 1]

\* the row-major serialization of the first n values of a rows x cols matrix
Serialized(m, cols, n) ==
    Cat([idx \in 1..n |-> pack(m[((idx - 1) \div cols) + 1][((idx - 1) % cols) + 1])])

IsPrefix(s, t) == Len(s) <= Len(t) /\ s = SubSeq(t, 1, Len(s))

\* C10: while a file is written it holds a prefix of the matrix's row-major
\* serialization, namely the values before (r, c); a failed write leaves that
\* strict prefix in place; and while the second file is opened or written,
\* also when that fails, the first one is complete
C10_FileIsPrefix ==
    /\ \A f \in {"A", "B"} :
           pc = "write" \o f =>
               LET a == SaveArgs(f)
                   full == Serialized(a.matrix, a.cols, a.rows * a.cols)
               IN  /\ files[f].exists
                   /\ IsPrefix(files[f].data, full)
                   /\ Len(files[f].data) = 4 * (r * a.cols + c)
                   /\ Len(files[f].data) < a.rows * a.cols * 4
    /\ pc \in {"openB", "writeB"} =>
           /\ files["A"].exists
           /\ files["A"].data = Serialized(matrix, DCT_SIZE, PCA_SIZE * DCT_SIZE)

\* the second file is cut short after its third value
C10_Witness ==
    /\ pc = "writeB" /\ error = "io-failure"
    /\ Len(files["B"].data) = 12
    /\ Len(files["A"].data) = 4 * PCA_SIZE * DCT_SIZE

\* ---- C5, C6, C9
\* the statement of main a position belongs to: extraction, generation, the
\* two saves, completion
Stage(p) ==
    CASE p \in ExtractStages -> 1
      [] p = "generate" -> 2
      [] p \in {"openA", "writeA"} -> 3
      [] p \in {"openB", "writeB"} -> 4
      [] p = "done" -> 5

ExtractionErrors == {"io-failure", "pattern-not-found", "row-count-mismatch",
                     "column-count-mismatch", "malformed-numeric-literal"}

\* C5: the generation is stopped only by the degenerate basis size, never
\* by the verifier; past it the inverse matrix is there whether or not the
\* verifier warned, and only an I/O failure stops the run; a save that has not
\* failed always has its next value to write; and at completion both files
\* are fully written
C5_WarningIsAdvisory ==
    /\ pc = "generate" /\ error # "none" => DCT_SIZE < 2
    /\ Stage(pc) > 2 =>
           /\ Len(idct) = DCT_SIZE
           /\ error \in {"none", "io-failure"}
    /\ \A f \in {"A", "B"} :
           pc = "write" \o f => r < SaveArgs(f).rows /\ c < SaveArgs(f).cols
    /\ pc = "done" =>
           /\ error = "none"
           /\ Len(files["A"].data) = PCA_SIZE * DCT_SIZE * 4
           /\ Len(files["B"].data) = DCT_SIZE * DCT_SIZE * 4

C5_Witness == pc = "done" /\ warned /\ Len(files["B"].data) = 16

\* what every step of a run satisfies
C6_StepInOrder ==
    /\ error = "none"
    /\ Stage(pc') \in {Stage(pc), Stage(pc) + 1}
    /\ error' # "none" =>
           /\ pc' = pc /\ files' = files
           /\ Stage(pc) = 1 => error' \in ExtractionErrors
           /\ Stage(pc) = 2 => error' \in {"ZeroDivisionError", "IndexError"}
           /\ Stage(pc) \in {3, 4} => error' = "io-failure"
    /\ Stage(pc) \in {1, 2} => files' = files
    /\ Stage(pc) = 3 => files'["B"] = files["B"]
    /\ Stage(pc) = 4 => files'["A"] = files["A"]

\* C6: no step is taken after an error; a step stays in its statement of main
\* or moves to the next one; an error leaves position and files as they were;
\* each error is raised in the statement it belongs to; extraction and
\* generation touch no file, the first save only the first file and the
\* second save only the second
C6_SequentialAbort == [][C6_StepInOrder]_vars

\* the first save failed and the second file was never created
C6_Witness ==
    /\ pc = "writeA" /\ error = "io-failure"
    /\ Len(files["A"].data) = 4
    /\ files["B"] = NoFile

\* C9 (as amended): for a basis size of at least 2 the generation raises
\* nothing and yields a DCT_SIZE x DCT_SIZE matrix fixed by DCT_SIZE
C9_GenerationTotalFromTwo ==
    DCT_SIZE >= 2 =>
        /\ pc = "generate" => error = "none"
        /\ Stage(pc) > 2 =>
               /\ Len(idct) = DCT_SIZE
               /\ \A n \in 1..DCT_SIZE : Len(idct[n]) = DCT_SIZE
               /\ idct = generate_idct_matrix(DCT_SIZE).IDCT

C9_Witness == pc = "openA" /\ DCT_SIZE = 2 /\ Len(idct) = 2 /\ error = "none"

\* C9 (as stated): the generation raises nothing for any basis size from 1
C9_Original == pc = "generate" => error = "none"
====
